---- MODULE Spec2Model ----
(***************************************************************************)
(* Model of the cached-request engine of puffin-client                     *)
(* (crates/puffin-client/src/cached_client.rs): CachedClient::             *)
(* get_cached_with_callback2, send_cached and fresh_request, the envelope  *)
(* DataWithCachePolicy, the Cacheable wrapper SerdeCacheable and the error *)
(* type CachedClientError.  Every await point of a fetch is one step, so   *)
(* that fetches on the same cache entry can interleave.                    *)
(***************************************************************************)
EXTENDS Naturals, Sequences, FiniteSets, TLC

\* ------------------------------------------------------------------ bounds
\* The wall clock (SystemTime::now) runs over 0..MaxTime.
MaxTime == 2

\* Fetches a scenario follows (a sequence of fetches on one cache entry).
ScenarioFetches == 3

\* Tasks that can run a fetch on the cache entry.
Procs == {"p1", "p2"}
Times == 0..MaxTime

\* Request identities (method and URL) a caller may fetch with one cache entry.
Urls == {"u1", "u2"}
\* max-age values a response may carry.
MaxAges == {0, 2}
\* Values a response callback may produce (the T of SerdeCacheable<T>); the
\* last one stands for a value whose serialization fails.
Targets == {"t1", "t2", "unencodable"}

\* ------------------------------------------------------------ Option/Result
None == [kind |-> "None"]
Some(x) == [kind |-> "Some", val |-> x]
Ok(x) == [kind |-> "Ok", val |-> x]
Err(e) == [kind |-> "Err", err |-> e]

\* CachedClientError::Client(Error) and CachedClientError::Callback(E);
\* From<Error> and From<ErrorKind> both build the Client variant.
Client(e) == [kind |-> "Client", err |-> e]
Callback(e) == [kind |-> "Callback", err |-> e]
Pending == [kind |-> "Pending"]

\* ------------------------------------------------------------- Cacheable
\* SerdeCacheable { inner }
SerdeCacheable(t) == [inner |-> t]

\* Bytes are modelled by what they decode to: fmt names the record layout the
\* byte string is a MessagePack encoding of; "garbage" decodes as nothing.
GarbageBytes == [fmt |-> "garbage"]

\* (mutant: every value is serialized as the same bytes)
MutToBytes(p) == Ok([fmt |-> "payload", inner |-> "t1"])

\* SerdeCacheable::to_bytes: rmp_serde::to_vec(&self.inner).map_err(Encode)
to_bytes(p) ==
    IF p.inner = "unencodable" THEN Err("Encode")
    ELSE Ok([fmt |-> "payload", inner |-> p.inner])

\* SerdeCacheable::from_bytes: rmp_serde::from_slice::<T>(&bytes).map_err(Decode)
from_bytes(bytes) ==
    IF bytes.fmt = "payload" THEN Ok(bytes.inner) ELSE Err("Decode")

\* SerdeCacheable::into_target
into_target(p) == p.inner

\* Byte strings that can be the data of a stored envelope.
DataBytes == {[fmt |-> "payload", inner |-> t] : t \in Targets \ {"unencodable"}}
                 \cup {GarbageBytes}

\* ------------------------------------------------- response cache-control
NoCacheControl == [present |-> FALSE, maxAge |-> 0, noStore |-> FALSE, immutable |-> FALSE]
CacheControls ==
    {NoCacheControl} \cup
    [present : {TRUE}, maxAge : MaxAges, noStore : BOOLEAN, immutable : BOOLEAN]

\* A response the server can give: "ok" (2xx), "not_modified" (304), "error"
\* (4xx/5xx).
Statuses == {"ok", "not_modified", "error"}
Responses == [status : Statuses, cc : CacheControls]

\* CacheHeaders::from_response(res.headers().get_all("cache-control")).is_immutable()
is_immutable(res) == res.cc.present /\ res.cc.immutable

\* ----------------------------------------------------------- cache policy
\* http_cache_semantics::CachePolicy, reduced to what decides freshness,
\* storability and the request match.
\* CachePolicy::new(&request, &response)
CachePolicyNew(creq, res, t) ==
    [url |-> creq.url, status |-> res.status, maxAge |-> res.cc.maxAge,
     noStore |-> res.cc.noStore, time |-> t]

\* CachePolicy::is_storable
is_storable(p) == p.status = "ok" /\ ~p.noStore

age(p, t) == IF t >= p.time THEN t - p.time ELSE 0

\* CachePolicy::is_stale
is_stale(p, t) == p.maxAge <= age(p, t)

\* CachePolicy::before_request: Fresh, or Stale with the revalidation request
\* and whether the request matches the cached one.
before_request(p, creq, t) ==
    LET matches == creq.url = p.url
        satisfied == /\ ~(creq.cache_control /\ age(p, t) > 0)
                     /\ ~is_stale(p, t)
                     /\ matches
    IN IF satisfied THEN [kind |-> "Fresh"]
       ELSE [kind |-> "Stale", matches |-> matches,
             request |-> [creq EXCEPT !.conditional = matches]]

\* CachePolicy::after_response: a 304 keeps the stored response, updated by
\* the headers the 304 carries; any other status replaces it.
after_response(p, creq, res, t) ==
    IF res.status = "not_modified"
    THEN [kind |-> "NotModified",
          policy |-> [url |-> creq.url, status |-> p.status,
                      maxAge |-> IF res.cc.present THEN res.cc.maxAge ELSE p.maxAge,
                      noStore |-> IF res.cc.present THEN res.cc.noStore ELSE p.noStore,
                      time |-> t]]
    ELSE [kind |-> "Modified", policy |-> CachePolicyNew(creq, res, t)]

Policies == [url : Urls, status : {"ok"}, maxAge : MaxAges, noStore : BOOLEAN, time : Times]

\* ---------------------------------------------------------------- envelope
\* DataWithCachePolicy { data, immutable, cache_policy }
DataWithCachePolicy(data, immutable, cache_policy) ==
    [data |-> data, immutable |-> immutable, cache_policy |-> cache_policy]

\* rmp_serde::to_vec(&data_with_cache_policy)
EncodeEnvelope(e) ==
    [fmt |-> "DataWithCachePolicy", data |-> e.data, immutable |-> e.immutable,
     cache_policy |-> e.cache_policy]

\* rmp_serde::from_slice::<DataWithCachePolicy>(&cached)
DecodeEnvelope(bytes) ==
    IF bytes.fmt = "DataWithCachePolicy"
    THEN Ok(DataWithCachePolicy(bytes.data, bytes.immutable, bytes.cache_policy))
    ELSE Err("Decode")

\* The file at cache_entry.path(): missing, or holding bytes.
Missing == [exists |-> FALSE]
FileOf(bytes) == [exists |-> TRUE, bytes |-> bytes]
WellFormed(f) == f.exists /\ DecodeEnvelope(f.bytes).kind = "Ok"

\* ------------------------------------------------------- request headers
\* A request: its identity, whether it carries Cache-Control: max-age=0,
\* must-revalidate, and whether it carries the conditional (validator) headers.
Request(url) == [url |-> url, cache_control |-> FALSE, conditional |-> FALSE]

\* send_cached: match cache_control { None => {}, MustRevalidate => insert }
ApplyCacheControl(creq, cache_control) ==
    IF cache_control = "MustRevalidate"
    THEN [creq EXCEPT !.cache_control = TRUE]
    ELSE creq

\* send_cached: for header in &request.headers { req.insert; converted_req.insert }
\* (mutant: the revalidation headers are not put into the request)
MutMergeHeaders(r, request) == r
MergeHeaders(r, request) ==
    [r EXCEPT !.cache_control = r.cache_control \/ request.cache_control,
              !.conditional = r.conditional \/ request.conditional]

\* send_cached, mismatch arm: self.fresh_request(req, converted_req) executes
\* req as the caller built it; the headers of the revalidation request are
\* not merged into it.
\* (mutant: the fallback request is made conditional)
MutFallbackRequest(req, request) == [req EXCEPT !.conditional = TRUE]
FallbackRequest(req, request) == req

\* ------------------------------------------------ decisions of the fetch
\* (mutant: a broken entry is left in place)
MutParseCache(read_result) ==
    IF read_result.kind = "Ok" /\ DecodeEnvelope(read_result.val).kind = "Ok"
    THEN [cached |-> Some(DecodeEnvelope(read_result.val).val), remove |-> FALSE]
    ELSE [cached |-> None, remove |-> FALSE]

\* get_cached_with_callback2: what the read of the entry yields: the decoded
\* envelope if any, and whether the file is removed as broken.
ParseCache(read_result) ==
    IF read_result.kind = "Ok"
    THEN LET parse_result == DecodeEnvelope(read_result.val)
         IN IF parse_result.kind = "Ok"
            THEN [cached |-> Some(parse_result.val), remove |-> FALSE]
            ELSE [cached |-> None, remove |-> TRUE]
    ELSE [cached |-> None, remove |-> FALSE]

\* send_cached: cached.immutable && !cached.cache_policy.is_stale(now)
\* (mutant: the negation of the staleness test lost)
MutFastPath(cached, t) == cached.immutable /\ is_stale(cached.cache_policy, t)
\* (mutant: an immutable entry is served whether its policy is stale or not)
MutFastPathImmutableOnly(cached, t) == cached.immutable
FastPath(cached, t) == cached.immutable /\ ~is_stale(cached.cache_policy, t)

\* Response::error_for_status
\* (mutant: the status is not checked)
MutErrorForStatus(res) == Ok(res)
ErrorForStatus(res) == IF res.status = "error" THEN Err("RequestError") ELSE Ok(res)

\* policy.is_storable().then(|| Box::new(policy))
\* (mutant: the policy is kept whether storable or not)
MutStorablePolicy(p) == Some(p)
StorablePolicy(p) == IF is_storable(p) THEN Some(p) ELSE None

\* send_cached: the envelope of the NotModified outcome
\* (mutant: the immutable flag is carried over from the stale entry)
MutNotModifiedEnvelope(cached, res, new_policy) ==
    DataWithCachePolicy(cached.data, cached.immutable, new_policy)
NotModifiedEnvelope(cached, res, new_policy) ==
    DataWithCachePolicy(cached.data, is_immutable(res), new_policy)

\* get_cached_with_callback2: the envelope of a new response
\* (mutant: the envelope is marked immutable whatever the response says)
MutModifiedEnvelope(bytes, res, cache_policy) ==
    DataWithCachePolicy(bytes, TRUE, cache_policy)
ModifiedEnvelope(bytes, res, cache_policy) ==
    DataWithCachePolicy(bytes, is_immutable(res), cache_policy)

\* get_cached_with_callback2: .map_err(|err| CachedClientError::Callback(err))
\* (mutant: the callback's error is reported as an engine error)
MutCallbackError(e) == Client(e)
CallbackError(e) == Callback(e)

\* get_cached_with_callback2: match cached_response: what the fetch does next
\* (mutant: a not-modified answer is handed to the callback as well)
MutResolveStep(outcome) ==
    CASE outcome = "FreshCache" -> "decode"
      [] outcome = "NotModified" -> "callback"
      [] outcome = "ModifiedOrNew" -> "callback"
ResolveStep(outcome) ==
    CASE outcome = "FreshCache" -> "decode"
      [] outcome = "NotModified" -> "write_not_modified"
      [] outcome = "ModifiedOrNew" -> "callback"

\* ------------------------------------------------------------------- state
VARIABLES
    file,      \* the file at cache_entry.path()
    now,       \* SystemTime::now()
    st,        \* per task: the position and the locals of its fetch
    hist       \* history: the file before any fetch and, in a scenario,
               \* how far the scenario has come

vars == <<file, now, st, hist>>

NoResponse == [status |-> "none", cc |-> NoCacheControl]

\* A task that runs no fetch.
Idle ==
    [pc |-> "idle",
     url |-> "u1",                  \* req.url()
     cache_control |-> "None",      \* the CacheControl argument
     before |-> Missing,            \* the file when the fetch started
     read |-> Missing,              \* what the read of the entry saw
     cached |-> None,               \* Option<DataWithCachePolicy>
     req |-> Request("u1"),         \* headers of req
     converted_req |-> Request("u1"), \* headers of converted_req
     verdict |-> "none",            \* how send_cached decided
     at |-> 0,                      \* SystemTime::now() in send_cached
     res |-> NoResponse,            \* the response received
     outcome |-> "none",            \* the CachedResponse variant
     envelope |-> None,             \* the envelope to persist
     cache_policy |-> None,         \* Option<Box<CachePolicy>> of ModifiedOrNew
     policy_req |-> None,           \* the request handed to the policy
     new_policy |-> None,           \* the policy computed for the exchange
     data |-> None,                 \* the callback's payload
     sent |-> <<>>,                 \* requests executed, in order
     callbacks |-> 0,               \* calls of response_callback
     written |-> <<>>,              \* envelopes this fetch wrote
     removed |-> <<>>,              \* file contents this fetch removed
     remove_result |-> "none",      \* how remove_file ended, if called
     cancelled_at |-> "none",       \* the await at which the future was dropped
     result |-> Pending]

\* No scenario is followed and the file before any fetch is not kept.
NoHistory ==
    [on |-> FALSE, file0 |-> Missing, alive |-> TRUE, stage |-> 0,
     url |-> "u1", target |-> "t1"]

\* The files a cache entry may hold before any fetch of a behaviour.
InitialFiles ==
    {Missing, FileOf(GarbageBytes)} \cup
    {FileOf(EncodeEnvelope(DataWithCachePolicy(d, i, p))) :
        d \in DataBytes, i \in BOOLEAN,
        p \in {q \in Policies : q.time = 0 /\ q.url = "u1" /\ ~q.noStore}}

Init ==
    /\ file \in InitialFiles
    /\ now = 0
    /\ st = [f \in Procs |-> Idle]
    /\ hist = NoHistory


Finish(s, r) == [s EXCEPT !.pc = "done", !.result = r]

\* ----------------------------------------------------------------- actions
\* A caller starts get_cached_with_callback2(req, cache_entry, cache_control, cb).
Start(f) ==
    /\ st[f].pc = "idle"
    /\ hist.on => (hist.alive /\ hist.stage < ScenarioFetches)
    /\ \E u \in Urls, cc \in {"None", "MustRevalidate"} :
        st' = [st EXCEPT ![f] = [Idle EXCEPT !.pc = "read", !.url = u,
                                  !.cache_control = cc, !.before = file,
                                  !.req = Request(u),
                                  !.converted_req = Request(u)]]
    /\ UNCHANGED <<file, now, hist>>

\* fs_err::tokio::read(cache_entry.path()).await, then the parse.
ReadCache(f) ==
    /\ st[f].pc = "read"
    /\ \E readable \in BOOLEAN :
        LET read_result == IF file.exists /\ readable THEN Ok(file.bytes) ELSE Err("io")
            parsed == ParseCache(read_result)
        IN st' = [st EXCEPT ![f] =
                    [@ EXCEPT !.read = IF read_result.kind = "Ok" THEN file ELSE Missing,
                              !.cached = parsed.cached,
                              !.pc = IF parsed.remove THEN "remove_file" ELSE "send"]]
    /\ UNCHANGED <<file, now, hist>>

\* let _ = fs_err::tokio::remove_file(&cache_entry.path()).await;
RemoveFile(f) ==
    /\ st[f].pc = "remove_file"
    /\ \E ok \in BOOLEAN :
        LET gone == ok /\ file.exists
        IN /\ file' = IF gone THEN Missing ELSE file
           /\ st' = [st EXCEPT ![f] =
                       [@ EXCEPT !.pc = "send",
                                 !.remove_result = IF gone THEN "Ok" ELSE "Err",
                                 !.removed = IF gone THEN Append(@, file) ELSE @]]
    /\ UNCHANGED <<now, hist>>

\* CachedResponse::FreshCache(data), ::NotModified(envelope) and
\* ::ModifiedOrNew(res, cache_policy).  The three variants are records of one
\* shape; a field a variant does not carry holds a placeholder no step reads.
FreshCache(data) ==
    [kind |-> "FreshCache", data |-> data, envelope |-> None,
     res |-> NoResponse, cache_policy |-> None]
NotModified(envelope, res) ==
    [kind |-> "NotModified", data |-> envelope.data, envelope |-> Some(envelope),
     res |-> res, cache_policy |-> None]
ModifiedOrNew(res, cache_policy) ==
    [kind |-> "ModifiedOrNew", data |-> GarbageBytes, envelope |-> None,
     res |-> res, cache_policy |-> cache_policy]

\* Ok(Payload::from_bytes(data)?)
Decoded(bytes) ==
    LET r == from_bytes(bytes)
    IN IF r.kind = "Ok" THEN Ok(r.val) ELSE Client(r.err)

\* (mutant: a storable ModifiedOrNew response is persisted before the
\* callback has run)
MutResolve(s, o) ==
    LET step == ResolveStep(o.kind)
        s1 == [s EXCEPT !.outcome = o.kind, !.res = o.res]
    IN CASE step = "decode" -> Finish(s1, Decoded(o.data))
         [] step = "write_not_modified" ->
              [s1 EXCEPT !.pc = "write_not_modified", !.envelope = o.envelope]
         [] step = "callback" ->
              IF o.cache_policy.kind = "Some"
              THEN [s1 EXCEPT !.pc = "create_dir_all",
                              !.cache_policy = o.cache_policy,
                              !.data = Some(SerdeCacheable("t1")),
                              !.envelope = Some(ModifiedEnvelope(
                                  GarbageBytes, o.res, o.cache_policy.val))]
              ELSE [s1 EXCEPT !.pc = "callback", !.callbacks = @ + 1,
                              !.cache_policy = o.cache_policy]

\* get_cached_with_callback2: match cached_response { ... } up to the next
\* await: FreshCache returns at once, NotModified goes to write the refreshed
\* envelope, ModifiedOrNew calls response_callback(res).
Resolve(s, o) ==
    LET step == ResolveStep(o.kind)
        s1 == [s EXCEPT !.outcome = o.kind, !.res = o.res]
    IN CASE step = "decode" -> Finish(s1, Decoded(o.data))
         [] step = "write_not_modified" ->
              [s1 EXCEPT !.pc = "write_not_modified", !.envelope = o.envelope]
         [] step = "callback" ->
              [s1 EXCEPT !.pc = "callback", !.callbacks = @ + 1,
                         !.cache_policy = o.cache_policy]

\* send_cached up to its first await (or its return without one).
SendCached(f) ==
    /\ st[f].pc = "send"
    /\ \E conv_ok \in BOOLEAN :
        LET s == [st[f] EXCEPT !.at = now]
            miss == [s EXCEPT !.pc = "fresh_request", !.verdict = "miss",
                              !.sent = Append(@, s.req)]
        IN st' = [st EXCEPT ![f] =
            IF ~conv_ok THEN Finish(s, Client("RequestError"))
            ELSE IF s.cached.kind = "None" THEN miss
            ELSE LET cached == s.cached.val
                     creq == ApplyCacheControl(s.converted_req, s.cache_control)
                     br == before_request(cached.cache_policy, creq, now)
                 IN IF FastPath(cached, now)
                    THEN Resolve([s EXCEPT !.verdict = "immutable"], FreshCache(cached.data))
                    ELSE IF br.kind = "Fresh"
                    THEN Resolve([s EXCEPT !.verdict = "Fresh", !.converted_req = creq],
                                 FreshCache(cached.data))
                    ELSE IF ~br.matches
                    THEN [s EXCEPT !.pc = "fresh_request", !.verdict = "mismatch",
                                   !.converted_req = creq,
                                   !.sent = Append(@, FallbackRequest(s.req, br.request))]
                    ELSE LET r == MergeHeaders(s.req, br.request)
                         IN [s EXCEPT !.pc = "revalidate", !.verdict = "Stale",
                                      !.req = r,
                                      !.converted_req = MergeHeaders(creq, br.request),
                                      !.sent = Append(@, r)]]
    /\ UNCHANGED <<file, now, hist>>

\* What self.0.execute(req).await gives: a transport/middleware failure or a
\* response.
Network == {Err("RequestMiddlewareError")} \cup {Ok(r) : r \in Responses}

\* send_cached from the answer of the revalidation request to its return.
RevalidationRequest(f) ==
    /\ st[f].pc = "revalidate"
    /\ \E net \in Network :
        LET s == st[f]
            checked == IF net.kind = "Ok" THEN ErrorForStatus(net.val) ELSE net
        IN st' = [st EXCEPT ![f] =
            IF checked.kind = "Err"
            THEN Finish([s EXCEPT !.res = IF net.kind = "Ok" THEN net.val ELSE @],
                        Client(checked.err))
            ELSE LET res == checked.val
                     cached == s.cached.val
                     ar == after_response(cached.cache_policy, s.converted_req, res, now)
                     s1 == [s EXCEPT !.policy_req = Some(s.converted_req),
                                     !.new_policy = Some(ar.policy)]
                 IN IF ar.kind = "NotModified"
                    THEN Resolve(s1, NotModified(NotModifiedEnvelope(cached, res, ar.policy), res))
                    ELSE Resolve(s1, ModifiedOrNew(res, StorablePolicy(ar.policy)))]
    /\ UNCHANGED <<file, now, hist>>

\* (mutant: a failed request is sent again)
MutFreshRequest(f) ==
    /\ st[f].pc = "fresh_request"
    /\ \E net \in Network :
        LET s == st[f]
            checked == IF net.kind = "Ok" THEN ErrorForStatus(net.val) ELSE net
        IN st' = [st EXCEPT ![f] =
            IF checked.kind = "Err"
            THEN IF Len(s.sent) < 3
                 THEN [s EXCEPT !.sent = Append(@, s.req)]
                 ELSE Finish(s, Client(checked.err))
            ELSE LET res == checked.val
                     cache_policy == CachePolicyNew(s.converted_req, res, now)
                     s1 == [s EXCEPT !.policy_req = Some(s.converted_req),
                                     !.new_policy = Some(cache_policy)]
                 IN Resolve(s1, ModifiedOrNew(res, StorablePolicy(cache_policy)))]
    /\ UNCHANGED <<file, now, hist>>

\* fresh_request from the answer of the request to its return.
FreshRequest(f) ==
    /\ st[f].pc = "fresh_request"
    /\ \E net \in Network :
        LET s == st[f]
            checked == IF net.kind = "Ok" THEN ErrorForStatus(net.val) ELSE net
        IN st' = [st EXCEPT ![f] =
            IF checked.kind = "Err"
            THEN Finish([s EXCEPT !.res = IF net.kind = "Ok" THEN net.val ELSE @],
                        Client(checked.err))
            ELSE LET res == checked.val
                     cache_policy == CachePolicyNew(s.converted_req, res, now)
                     s1 == [s EXCEPT !.policy_req = Some(s.converted_req),
                                     !.new_policy = Some(cache_policy)]
                 IN Resolve(s1, ModifiedOrNew(res, StorablePolicy(cache_policy)))]
    /\ UNCHANGED <<file, now, hist>>

\* What response_callback(res).await gives.
CallbackResults == {Err("callback")} \cup {Ok(SerdeCacheable(t)) : t \in Targets}

\* (mutant: when the response is not to be stored, the entry is cleared)
MutResponseCallback(f) ==
    /\ st[f].pc = "callback"
    /\ \E r \in CallbackResults :
        LET s == st[f]
        IN IF r.kind = "Err"
           THEN /\ st' = [st EXCEPT ![f] = Finish(s, CallbackError(r.err))]
                /\ file' = file
           ELSE LET data == r.val
                    s1 == [s EXCEPT !.data = Some(data)]
                IN IF s.cache_policy.kind = "Some"
                   THEN LET bytes == to_bytes(data)
                        IN /\ st' = [st EXCEPT ![f] =
                                IF bytes.kind = "Err" THEN Finish(s1, Client(bytes.err))
                                ELSE [s1 EXCEPT !.pc = "create_dir_all",
                                                !.envelope = Some(ModifiedEnvelope(
                                                    bytes.val, s.res, s.cache_policy.val))]]
                           /\ file' = file
                   ELSE /\ st' = [st EXCEPT ![f] = Finish(s1, Ok(into_target(data)))]
                        /\ file' = Missing
    /\ UNCHANGED <<now, hist>>

\* get_cached_with_callback2 from the callback's answer to the next await.
ResponseCallback(f) ==
    /\ st[f].pc = "callback"
    /\ \E r \in CallbackResults :
        LET s == st[f]
        IN st' = [st EXCEPT ![f] =
            IF r.kind = "Err" THEN Finish(s, CallbackError(r.err))
            ELSE LET data == r.val
                     s1 == [s EXCEPT !.data = Some(data)]
                 IN IF s.cache_policy.kind = "Some"
                    THEN LET bytes == to_bytes(data)
                         IN IF bytes.kind = "Err" THEN Finish(s1, Client(bytes.err))
                            ELSE [s1 EXCEPT !.pc = "create_dir_all",
                                            !.envelope = Some(ModifiedEnvelope(
                                                bytes.val, s.res, s.cache_policy.val))]
                    ELSE Finish(s1, Ok(into_target(data)))]
    /\ UNCHANGED <<file, now, hist>>

\* fs_err::tokio::create_dir_all(cache_entry.dir()).await
CreateDirAll(f) ==
    /\ st[f].pc = "create_dir_all"
    /\ \E ok \in BOOLEAN :
        st' = [st EXCEPT ![f] =
                 IF ok THEN [@ EXCEPT !.pc = "write_cache"]
                 ELSE Finish(@, Client("CacheWrite"))]
    /\ UNCHANGED <<file, now, hist>>

\* write_atomic(path, data) of puffin_fs: the bytes go to a temporary file
\* that is then renamed over the path, so the entry passes from its old
\* content to the complete new content in one step.
MutWriteAtomic(old, bytes) == FileOf(GarbageBytes)
write_atomic(old, bytes) == FileOf(bytes)

\* write_atomic(cache_entry.path(), envelope).await, then Ok(data.into_target())
WriteCache(f) ==
    /\ st[f].pc = "write_cache"
    /\ \E ok \in BOOLEAN :
        LET s == st[f]
            envelope == s.envelope.val
        IN IF ok
           THEN /\ file' = write_atomic(file, EncodeEnvelope(envelope))
                /\ st' = [st EXCEPT ![f] =
                            Finish([s EXCEPT !.written = Append(@, envelope)],
                                   Ok(into_target(s.data.val)))]
           ELSE /\ file' = file
                /\ st' = [st EXCEPT ![f] = Finish(s, Client("CacheWrite"))]
    /\ UNCHANGED <<now, hist>>

\* write_atomic(cache_entry.path(), data).await, then
\* Ok(Payload::from_bytes(data_with_cache_policy.data)?)
WriteNotModified(f) ==
    /\ st[f].pc = "write_not_modified"
    /\ \E ok \in BOOLEAN :
        LET s == st[f]
            envelope == s.envelope.val
        IN IF ok
           THEN /\ file' = write_atomic(file, EncodeEnvelope(envelope))
                /\ st' = [st EXCEPT ![f] =
                            Finish([s EXCEPT !.written = Append(@, envelope)],
                                   Decoded(envelope.data))]
           ELSE /\ file' = file
                /\ st' = [st EXCEPT ![f] = Finish(s, Client("CacheWrite"))]
    /\ UNCHANGED <<now, hist>>

\* The three fetches of the scenario, told by what the caller and the world
\* did (not by what the fetch made of it).  First: nothing was ever stored,
\* mode None, the answer is 200 with a positive max-age and no no-store, the
\* callback gives an encodable payload and the file write does not fail.
ScenarioFirst(s) ==
    /\ s.cache_control = "None"
    /\ ~s.before.exists
    /\ s.res.status = "ok" /\ s.res.cc.present
    /\ s.res.cc.maxAge > 0 /\ ~s.res.cc.noStore
    /\ s.data.kind = "Some" /\ s.data.val.inner # "unencodable"
    /\ s.result # Client("CacheWrite")
\* Second: same request, mode None, the envelope is read while its policy is
\* fresh.
ScenarioSecond(h, s) ==
    /\ s.cache_control = "None" /\ s.url = h.url
    /\ s.verdict # "none"
    /\ s.cached.kind = "Some"
    /\ ~is_stale(s.cached.val.cache_policy, s.at)
\* Third: same request, mode None, the envelope is read when its policy is
\* stale, the server answers 304 and the file write does not fail.
ScenarioThird(h, s) ==
    /\ s.cache_control = "None" /\ s.url = h.url
    /\ s.cached.kind = "Some"
    /\ is_stale(s.cached.val.cache_policy, s.at)
    /\ s.res.status = "not_modified"
    /\ s.result # Client("CacheWrite")

\* The scenario after the fetch s has returned: one stage further if s was
\* the fetch the scenario expects next, over otherwise.
Advance(h, s) ==
    CASE h.stage = 0 /\ ScenarioFirst(s) ->
            [h EXCEPT !.stage = 1, !.url = s.url, !.target = into_target(s.data.val)]
      [] h.stage = 1 /\ ScenarioSecond(h, s) -> [h EXCEPT !.stage = 2]
      [] h.stage = 2 /\ ScenarioThird(h, s) -> [h EXCEPT !.stage = 3]
      [] h.stage >= 3 -> [h EXCEPT !.stage = @ + 1]
      [] OTHER -> [h EXCEPT !.alive = FALSE]

\* The caller takes the result; the task can start another fetch.
Return(f) ==
    /\ st[f].pc = "done"
    /\ st' = [st EXCEPT ![f] = Idle]
    /\ hist' = IF hist.on
               THEN Advance(hist, st[f])
               ELSE hist
    /\ UNCHANGED <<file, now>>

\* Time passes.
Tick ==
    /\ now < MaxTime
    /\ now' = now + 1
    /\ UNCHANGED <<file, st, hist>>

\* One task fetches through the cache entry, one fetch after another.
Next ==
    \/ Start("p1")
    \/ ReadCache("p1")
    \/ RemoveFile("p1")
    \/ SendCached("p1")
    \/ RevalidationRequest("p1")
    \/ FreshRequest("p1")
    \/ ResponseCallback("p1")
    \/ CreateDirAll("p1")
    \/ WriteCache("p1")
    \/ WriteNotModified("p1")
    \/ Return("p1")
    \/ Tick

Spec == Init /\ [][Next]_vars

\* A scenario: the fetches are followed as long as they are the ones the
\* scenario expects, the first of them on an entry that holds no file.
InitScenario ==
    /\ file \in InitialFiles
    /\ now = 0
    /\ st = [f \in Procs |-> Idle]
    /\ hist = [NoHistory EXCEPT !.on = TRUE]

SpecScenario == InitScenario /\ [][Next]_vars

\* The future of a fetch is dropped while it is suspended at an await: the
\* fetch takes no further step.
AwaitPoints ==
    {"read", "remove_file", "revalidate", "fresh_request", "callback",
     "create_dir_all", "write_cache", "write_not_modified"}
Cancel(f) ==
    /\ st[f].pc \in AwaitPoints
    /\ st' = [st EXCEPT ![f] = [@ EXCEPT !.cancelled_at = st[f].pc, !.pc = "cancelled"]]
    /\ UNCHANGED <<file, now, hist>>

\* The callers and the server of the concurrent fetches: every task asks
\* for the same request in mode None, and the server's answers carry no
\* cache-control or one with a positive max-age that is not immutable.
ConcResponses ==
    {r \in Responses : r.cc.present => (r.cc.maxAge > 0 /\ ~r.cc.immutable)}
ConcInputs(s) ==
    /\ s.url = "u1"
    /\ s.cache_control = "None"
    /\ s.res \in ConcResponses \cup {NoResponse}

\* Tasks each run one fetch on the same cache entry, their steps interleaved
\* in any order; the file the entry held before the fetches is kept.
NextConc ==
    \E f \in Procs :
        /\ \/ Start(f)
           \/ ReadCache(f)
           \/ RemoveFile(f)
           \/ SendCached(f)
           \/ RevalidationRequest(f)
           \/ FreshRequest(f)
           \/ ResponseCallback(f)
           \/ CreateDirAll(f)
           \/ WriteCache(f)
           \/ WriteNotModified(f)
           \/ Cancel(f)
        /\ ConcInputs(st'[f])

InitConc ==
    /\ file \in InitialFiles
    /\ now = 0
    /\ st = [f \in Procs |-> Idle]
    /\ hist = [NoHistory EXCEPT !.file0 = file]

SpecConc == InitConc /\ [][NextConc]_vars

\* ------------------------------------------------------------------ claims
\* The task whose fetches the claims below speak of.
F == st["p1"]
\* send_cached has taken its decision: the request converted and the cache
\* was consulted.
Decided == F.verdict # "none"
HasEnvelope == F.cached.kind = "Some"
Done == F.pc = "done"

\* C1: a fetch that reads an envelope with immutable = true whose policy is
\* not stale at the time send_cached looks at it ends at once, in both
\* cache-control modes: no request was sent, the callback was not called,
\* nothing was written or removed, and the value returned is the one the
\* cached data bytes decode to.
C1_ImmutableFastPath ==
    (/\ Decided
     /\ HasEnvelope
     /\ F.cached.val.immutable
     /\ ~is_stale(F.cached.val.cache_policy, F.at))
    => /\ Done
       /\ F.outcome = "FreshCache"
       /\ F.sent = <<>>
       /\ F.callbacks = 0
       /\ F.written = <<>>
       /\ F.removed = <<>>
       /\ file = F.before
       /\ F.result.kind \in {"Ok", "Client"}
       /\ F.cached.val.data.fmt = "payload"
            => F.result = Ok(F.cached.val.data.inner)

\* C1 witness: the fast path served an envelope that before_request would
\* have sent to revalidation (forced revalidation, age above zero).
C1_Witness ==
    /\ Done
    /\ HasEnvelope
    /\ F.cached.val.immutable
    /\ ~is_stale(F.cached.val.cache_policy, F.at)
    /\ F.cache_control = "MustRevalidate"
    /\ age(F.cached.val.cache_policy, F.at) > 0
    /\ F.result = Ok("t1")

\* C2: response_callback is called at most once in a fetch, and it has been
\* called exactly when the outcome of the lookup is ModifiedOrNew, which
\* arises on a miss, on the mismatch fallback and on a revalidation answered
\* Modified; it is not called for FreshCache or NotModified.
C2_CallbackOnlyOnModifiedOrNew ==
    /\ F.callbacks <= 1
    /\ F.callbacks = 1 <=> F.outcome = "ModifiedOrNew"
    /\ F.outcome \in {"FreshCache", "NotModified"} => F.callbacks = 0
    /\ F.outcome = "ModifiedOrNew" => F.verdict \in {"miss", "mismatch", "Stale"}
    /\ F.outcome = "FreshCache" => F.verdict \in {"immutable", "Fresh"}
    /\ F.outcome = "NotModified" => F.verdict = "Stale" /\ F.res.status = "not_modified"
    /\ (F.verdict \in {"miss", "mismatch"} /\ F.res.status \in {"ok", "not_modified"})
         => F.outcome = "ModifiedOrNew"
    /\ (F.verdict = "Stale" /\ F.res.status = "ok") => F.outcome = "ModifiedOrNew"

\* C2 witness: a revalidation answered Modified called the callback once,
\* and the fetch returned its value.
C2_Witness ==
    /\ Done
    /\ F.verdict = "Stale"
    /\ F.outcome = "ModifiedOrNew"
    /\ F.callbacks = 1
    /\ F.result.kind = "Ok"

\* C3: when a revalidation is answered NotModified, the envelope the fetch
\* writes holds the data of the envelope it read, the policy after_response
\* returned and the immutable flag of the revalidation response's
\* cache-control (not the stale entry's); the value returned is decoded from
\* the data that was cached.
C3_NotModifiedPreservesBody ==
    (F.outcome = "NotModified" /\ F.written # <<>>)
    => /\ Len(F.written) = 1
       /\ F.written[1].data = F.cached.val.data
       /\ F.written[1].cache_policy = F.new_policy.val
       /\ F.written[1].immutable = (F.res.cc.present /\ F.res.cc.immutable)
       /\ file = FileOf(EncodeEnvelope(F.written[1]))
       /\ F.callbacks = 0
       /\ Done
       /\ F.cached.val.data.fmt = "payload"
            => F.result = Ok(F.cached.val.data.inner)

\* C3 witness: the stale entry was immutable, the 304 carries no immutable
\* directive, the refreshed envelope was written and the cached value returned.
C3_Witness ==
    /\ Done
    /\ F.outcome = "NotModified"
    /\ F.written # <<>>
    /\ F.cached.val.immutable
    /\ ~F.written[1].immutable
    /\ F.written[1].cache_policy # F.cached.val.cache_policy
    /\ F.result = Ok("t1")

\* C4: a ModifiedOrNew outcome with a storable policy whose callback
\* succeeds, and whose encoding and file write do not fail, calls the
\* callback once and writes one envelope: its data is to_bytes() of the
\* callback's payload, its immutable flag the immutable directive of the live
\* response, its policy the one computed for this exchange; the fetch returns
\* the payload's into_target().  A fetch never writes twice, and one that ends
\* in an engine error on this path has written nothing.
C4_ModifiedReplacesBody ==
    /\ Len(F.written) <= 1
    /\ (/\ Done
        /\ F.outcome = "ModifiedOrNew"
        /\ F.cache_policy.kind = "Some"
        /\ F.data.kind = "Some"
        /\ F.result.kind # "Client")
       => /\ F.callbacks = 1
          /\ Len(F.written) = 1
          /\ F.written[1].data = [fmt |-> "payload", inner |-> F.data.val.inner]
          /\ F.written[1].immutable = (F.res.cc.present /\ F.res.cc.immutable)
          /\ F.written[1].cache_policy = F.new_policy.val
          /\ F.cache_policy = F.new_policy
          /\ file = FileOf(EncodeEnvelope(F.written[1]))
          /\ F.result = Ok(F.data.val.inner)
    /\ (Done /\ F.outcome = "ModifiedOrNew" /\ F.result.kind # "Ok")
       => F.written = <<>>

\* C4 witness: a revalidation answered Modified replaced an envelope that
\* held other data and another immutable flag.
C4_Witness ==
    /\ Done
    /\ F.outcome = "ModifiedOrNew"
    /\ HasEnvelope
    /\ F.cached.val.data = [fmt |-> "payload", inner |-> "t1"]
    /\ F.cached.val.immutable
    /\ Len(F.written) = 1
    /\ F.written[1].data = [fmt |-> "payload", inner |-> "t2"]
    /\ ~F.written[1].immutable
    /\ F.result = Ok("t2")

\* C5: when the policy computed for a ModifiedOrNew exchange is not storable,
\* the fetch calls the callback, writes nothing whether the callback succeeds
\* or fails, and returns the callback's target value (or its error).
C5_NonStorableSkip ==
    (F.outcome = "ModifiedOrNew" /\ ~is_storable(F.new_policy.val))
    => /\ F.callbacks = 1
       /\ F.written = <<>>
       /\ F.pc \in {"callback", "done"}
       /\ F.removed = <<>> => file = F.before
       /\ (Done /\ F.data.kind = "Some") => F.result = Ok(F.data.val.inner)
       /\ (Done /\ F.data.kind = "None") => F.result.kind = "Callback"

\* C5 witness: a no-store answer to a revalidation; the callback succeeded and
\* the envelope that was read is still the file.
C5_Witness ==
    /\ Done
    /\ F.outcome = "ModifiedOrNew"
    /\ F.res.status = "ok"
    /\ F.res.cc.noStore
    /\ HasEnvelope
    /\ F.result = Ok("t2")
    /\ file = F.before

\* C6 (as claimed): every envelope a fetch writes follows a response with a
\* non-error status and a storable resulting policy, on the not-modified path
\* as on the modified-or-new path.
C6_WriteOnlyIfStorable ==
    F.written # <<>>
    => /\ F.res.status \in {"ok", "not_modified"}
       /\ is_storable(F.new_policy.val)

\* C7: a file that is read but does not decode as an envelope does not fail
\* the fetch: remove_file is called on it (and, unless that call fails, the
\* file is gone until this fetch writes), the fetch goes on as a miss (one
\* request without conditional headers, the callback called on its answer),
\* never ends in a Decode error, and when it returns Ok with a storable policy
\* the file is a well-formed envelope.  A file that cannot be read is a miss
\* too, and is not removed.
C7_CorruptionRecovery ==
    /\ (F.read.exists /\ ~WellFormed(F.read) /\ F.pc \notin {"idle", "read"})
       => /\ F.cached = None
          /\ F.pc # "remove_file" => F.remove_result # "none"
          /\ F.remove_result = "Ok" => F.removed = <<F.read>>
          /\ (F.remove_result = "Ok" /\ F.written = <<>>) => file = Missing
          /\ F.result # Client("Decode")
          /\ Decided => (F.verdict = "miss" /\ Len(F.sent) = 1)
          /\ Len(F.sent) <= 1
          /\ \A i \in 1..Len(F.sent) : ~F.sent[i].conditional
          /\ F.res.status \in {"ok", "not_modified"} => F.callbacks = 1
          /\ (Done /\ F.result.kind = "Ok" /\ F.cache_policy.kind = "Some")
               => /\ WellFormed(file)
                  /\ file = FileOf(EncodeEnvelope(F.written[1]))
    /\ (~F.read.exists /\ F.pc \notin {"idle", "read"})
       => /\ F.cached = None
          /\ F.removed = <<>>
          /\ F.remove_result = "none"
          /\ Decided => F.verdict = "miss"

\* C7 witness: garbage was read and removed, and the fetch left a well-formed
\* envelope.
C7_Witness ==
    /\ Done
    /\ F.read = FileOf(GarbageBytes)
    /\ F.removed = <<FileOf(GarbageBytes)>>
    /\ F.result.kind = "Ok"
    /\ WellFormed(file)

\* C8 (as claimed): a fetch never ends in an error because cached content
\* cannot be decoded, be it the envelope or the payload bytes inside a
\* well-formed envelope.
C8_NoDecodeError == F.result # Client("Decode")

\* C9: when the request the engine sent fails in transport or is answered
\* with an error status, the fetch ends in a Client error: the callback is not
\* called, no cached value is returned, nothing is written, and a well-formed
\* envelope that was the file before the fetch is still the file.
C9_HttpFailureAborts ==
    (/\ F.sent # <<>>
     /\ F.pc \notin {"revalidate", "fresh_request"}
     /\ F.res.status \in {"none", "error"})
    => /\ Done
       /\ F.result \in {Client("RequestMiddlewareError"), Client("RequestError")}
       /\ F.res.status = "error" => F.result = Client("RequestError")
       /\ F.res.status = "none" => F.result = Client("RequestMiddlewareError")
       /\ F.callbacks = 0
       /\ F.outcome = "none"
       /\ F.written = <<>>
       /\ WellFormed(F.before) => (file = F.before /\ F.removed = <<>>)

\* C9 witness: the revalidation of a well-formed envelope was answered with an
\* error status.
C9_Witness ==
    /\ Done
    /\ HasEnvelope
    /\ F.verdict = "Stale"
    /\ F.res.status = "error"
    /\ F.result = Client("RequestError")
    /\ file = F.before

\* C10: a fetch ends in the Callback variant exactly when the callback was
\* called and returned an error, and then it has written nothing, whether
\* the policy was storable or not; every other failure is a Client error.
C10_ErrorDomains ==
    Done
    => /\ F.result.kind \in {"Ok", "Client", "Callback"}
       /\ F.result.kind = "Callback" <=> (F.callbacks = 1 /\ F.data.kind = "None")
       /\ F.result.kind = "Callback" => F.written = <<>>
       /\ F.result.kind = "Client"
            => F.result.err \in {"RequestError", "RequestMiddlewareError",
                                 "Encode", "Decode", "CacheWrite"}

\* C10 witness: the callback failed on an answer whose policy was storable.
C10_Witness ==
    /\ Done
    /\ F.result.kind = "Callback"
    /\ F.cache_policy.kind = "Some"
    /\ F.written = <<>>

\* C11 (as claimed): with CacheControl::MustRevalidate every request the
\* fetch executes carries Cache-Control: max-age=0, must-revalidate: the
\* revalidation request, the request of a miss and the request of the
\* mismatch fallback.
C11_MustRevalidateOnEveryRequest ==
    F.cache_control = "MustRevalidate"
    => \A i \in 1..Len(F.sent) : F.sent[i].cache_control

\* C12: three fetches of one request on one cache entry, mode None.  (1) With
\* no file and an answer 200 with a positive max-age, the fetch sends one
\* request, calls the callback once, writes an envelope and returns the
\* callback's target.  (2) A fetch while that policy is fresh sends nothing,
\* does not call the callback, leaves the file as it is and returns the same
\* target.  (3) A fetch when the policy is stale, answered 304, sends one
\* conditional request, does not call the callback and returns the same
\* target, decoded from the data the first fetch stored.
C12_ThreeFetchScenario ==
    (hist.on /\ hist.alive /\ Done)
    => /\ (hist.stage = 0 /\ ScenarioFirst(F))
            => /\ Len(F.sent) = 1 /\ ~F.sent[1].conditional
               /\ F.callbacks = 1
               /\ Len(F.written) = 1
               /\ file = FileOf(EncodeEnvelope(F.written[1]))
               /\ F.result = Ok(F.data.val.inner)
       /\ (hist.stage = 1 /\ ScenarioSecond(hist, F))
            => /\ F.sent = <<>>
               /\ F.callbacks = 0
               /\ F.written = <<>> /\ F.removed = <<>>
               /\ file = F.before
               /\ F.result = Ok(hist.target)
       /\ (hist.stage = 2 /\ ScenarioThird(hist, F))
            => /\ Len(F.sent) = 1 /\ F.sent[1].conditional
               /\ F.callbacks = 0
               /\ F.cached.val.data = [fmt |-> "payload", inner |-> hist.target]
               /\ F.result = Ok(hist.target)

\* C12 witness: the three fetches of the scenario have taken place.
C12_Witness == hist.on /\ hist.alive /\ hist.stage = 3

\* C13: under any interleaving of the fetches of two tasks on one cache
\* entry, what a read of the entry saw and what the entry holds is no file,
\* the file present before the fetches, or one complete envelope that one of
\* the fetches wrote; and a step in which a fetch writes leaves its envelope
\* as the content of the entry (the last writer wins).
Writes ==
    UNION {{FileOf(EncodeEnvelope(st[f].written[i])) : i \in 1..Len(st[f].written)} :
              f \in Procs}
CompleteFiles == {Missing, hist.file0} \cup Writes
C13_AtomicReadsLastWriterWins ==
    [][/\ \A f \in Procs : st'[f].read \in CompleteFiles'
       /\ file' \in CompleteFiles'
       /\ \A f \in Procs :
            st'[f].written # st[f].written
            => file' = FileOf(EncodeEnvelope(st'[f].written[Len(st'[f].written)]))]_vars

\* C13 witness: both tasks read a miss of an entry that held no file, both
\* sent a request, both wrote, and the entry holds the envelope of one of
\* them, which is not the envelope of the other.
C13_Witness ==
    /\ ~hist.file0.exists
    /\ \A f \in Procs :
        /\ st[f].pc = "done"
        /\ st[f].verdict = "miss"
        /\ Len(st[f].sent) = 1
        /\ Len(st[f].written) = 1
    /\ file = FileOf(EncodeEnvelope(st["p2"].written[1]))
    /\ file # FileOf(EncodeEnvelope(st["p1"].written[1]))

\* C14: in every reachable state, interleavings of fetches of two tasks
\* included, each content a fetch removed with remove_file is the undecodable
\* content that this fetch read; no well-formed envelope is removed.
C14_RemovesOnlyWhatItFailedToParse ==
    \A f \in Procs : \A i \in 1..Len(st[f].removed) :
        /\ st[f].removed[i] = st[f].read
        /\ ~WellFormed(st[f].removed[i])

\* C15: in every fetch a write to the cache entry comes after the response
\* was received and, when the outcome is ModifiedOrNew, after the callback
\* has returned its payload; so a fetch that is suspended on the request or
\* on the callback, was cancelled there, or failed there has written nothing.
NetworkOrCallback == {"revalidate", "fresh_request", "callback"}
FailedThere(s) ==
    /\ s.pc = "done"
    /\ \/ s.result \in {Client("RequestMiddlewareError"), Client("RequestError")}
       \/ s.result.kind = "Callback"
C15_WriteAfterResponseAndCallback ==
    \A f \in Procs :
        LET s == st[f]
        IN /\ s.written # <<>>
                => /\ Len(s.sent) >= 1
                   /\ s.res.status \in {"ok", "not_modified"}
                   /\ s.outcome \in {"NotModified", "ModifiedOrNew"}
                   /\ s.outcome = "ModifiedOrNew"
                        => (s.callbacks = 1 /\ s.data.kind = "Some")
           /\ s.pc \in NetworkOrCallback => s.written = <<>>
           /\ (s.pc = "cancelled" /\ s.cancelled_at \in NetworkOrCallback)
                => s.written = <<>>
           /\ FailedThere(s) => s.written = <<>>

\* C15 witness: one task was cancelled while its callback ran, after a
\* storable response, and wrote nothing; the other went through the callback
\* and wrote; the entry holds the envelope of the latter.
C15_Witness ==
    /\ st["p1"].pc = "cancelled"
    /\ st["p1"].cancelled_at = "callback"
    /\ st["p1"].cache_policy.kind = "Some"
    /\ st["p1"].written = <<>>
    /\ st["p2"].pc = "done"
    /\ st["p2"].outcome = "ModifiedOrNew"
    /\ Len(st["p2"].written) = 1
    /\ file = FileOf(EncodeEnvelope(st["p2"].written[1]))

\* The round trip of the payload the callback returned in this fetch.
RoundTrip(x) ==
    LET bytes == to_bytes(x)
    IN IF bytes.kind = "Ok" THEN from_bytes(bytes.val) ELSE Client(bytes.err)

ServedRequest == ApplyCacheControl(Request(F.url), F.cache_control)
C17_NeverServedStale ==
    /\ F.outcome = "FreshCache"
         => /\ HasEnvelope
            /\ F.sent = <<>>
            /\ ~is_stale(F.cached.val.cache_policy, F.at)
            /\ \/ /\ F.verdict = "immutable"
                  /\ F.cached.val.immutable
               \/ /\ F.verdict = "Fresh"
                  /\ before_request(F.cached.val.cache_policy, ServedRequest, F.at).kind
                       = "Fresh"
    /\ (Decided /\ HasEnvelope /\ F.cached.val.immutable
          /\ is_stale(F.cached.val.cache_policy, F.at))
         => /\ F.verdict \in {"Stale", "mismatch"}
            /\ F.outcome # "FreshCache"
            /\ Len(F.sent) = 1

\* C17 witness: an immutable envelope whose policy is stale was revalidated
\* with a conditional request.
C17_Witness ==
    /\ Done
    /\ HasEnvelope
    /\ F.cached.val.immutable
    /\ is_stale(F.cached.val.cache_policy, F.at)
    /\ F.verdict = "Stale"
    /\ Len(F.sent) = 1
    /\ F.sent[1].conditional
    /\ F.outcome = "NotModified"

\* How far a fetch has come: every step of a fetch moves it to a later
\* position, and no position is taken twice.
Rank(pc) ==
    CASE pc = "idle" -> 0
      [] pc = "read" -> 1
      [] pc = "remove_file" -> 2
      [] pc = "send" -> 3
      [] pc \in {"revalidate", "fresh_request"} -> 4
      [] pc = "callback" -> 5
      [] pc = "create_dir_all" -> 6
      [] pc \in {"write_cache", "write_not_modified"} -> 7
      [] pc \in {"done", "cancelled"} -> 8

\* Requests the fetch of a task has executed so far.
CallCounts(s) ==
    /\ Len(s.sent) <= 2
    /\ Len(s.sent) = 2 => s.verdict = "mismatch"
    /\ s.outcome = "FreshCache" => Len(s.sent) = 0
    /\ s.verdict = "miss" => Len(s.sent) = 1
    /\ s.verdict = "Stale" => Len(s.sent) = 1
    /\ s.verdict \in {"none", "immutable", "Fresh"} => Len(s.sent) = 0

\* C18: a fetch executes at most two requests, a second one only on the
\* mismatch fallback; none when its outcome is FreshCache, exactly one on a
\* miss and exactly one on a Stale verdict that matches.  Every step of a
\* fetch takes it to a later position and only send_cached executes a
\* request, so a fetch ends after these calls without retrying or looping.
C18_HttpCallsAndTermination ==
    [][/\ CallCounts(F')
       /\ (F' # F /\ F.pc # "done") => Rank(F'.pc) > Rank(F.pc)
       /\ (F.pc \notin {"send", "done"}) => F'.sent = F.sent]_vars

\* C18 witness: a fetch on a matching Stale verdict ended, its response
\* stored, after exactly one request.
C18_Witness ==
    /\ Done
    /\ F.verdict = "Stale"
    /\ Len(F.sent) = 1
    /\ F.outcome = "ModifiedOrNew"
    /\ F.written # <<>>

\* C19: when before_request answers Stale for a request that does not match
\* the cached one, the fetch goes on as on a miss: it executes one request,
\* the caller's without conditional headers; a response that is not an error
\* is ModifiedOrNew with a policy CachePolicy::new built from it, never the
\* merged one; the callback is called; the value returned is the callback's,
\* not the cached data; and when the new policy is storable the envelope of
\* the response replaces the one that was read.
Succeeded(s) ==
    /\ s.pc = "done"
    /\ s.data.kind = "Some"
    /\ to_bytes(s.data.val).kind = "Ok"
    /\ s.result # Client("CacheWrite")
C19_MismatchFallback ==
    F.verdict = "mismatch"
    => /\ HasEnvelope
       /\ F.cached.val.cache_policy.url # F.url
       /\ F.sent = <<Request(F.url)>>
       /\ ~F.sent[1].conditional
       /\ (F.res.status \in {"ok", "not_modified"})
            => /\ F.outcome = "ModifiedOrNew"
               /\ F.callbacks = 1
               /\ F.new_policy.val =
                    CachePolicyNew(F.policy_req.val, F.res, F.new_policy.val.time)
               /\ F.cache_policy = StorablePolicy(F.new_policy.val)
       /\ F.result.kind = "Ok" => F.result = Ok(into_target(F.data.val))
       /\ Succeeded(F)
            => /\ F.result = Ok(into_target(F.data.val))
               /\ is_storable(F.new_policy.val)
                    => /\ F.written =
                            <<DataWithCachePolicy(to_bytes(F.data.val).val,
                                                  is_immutable(F.res),
                                                  F.new_policy.val)>>
                       /\ file = FileOf(EncodeEnvelope(F.written[1]))
                       /\ file # F.read
               /\ ~is_storable(F.new_policy.val)
                    => (F.written = <<>> /\ file = F.read)

\* C19 witness: a fetch for u2 found the envelope of u1, fetched u2
\* unconditionally and replaced the envelope by that of the response.
C19_Witness ==
    /\ Done
    /\ F.verdict = "mismatch"
    /\ F.url = "u2"
    /\ F.cached.val.cache_policy.url = "u1"
    /\ F.result = Ok("t2")
    /\ Len(F.written) = 1
    /\ F.written[1].cache_policy.url = "u2"
    /\ file = FileOf(EncodeEnvelope(F.written[1]))

\* C20: every policy a fetch computes (CachePolicy::new in fresh_request,
\* after_response in send_cached) is computed from a request whose headers
\* are those of the request the fetch executed, in both cache-control modes
\* and on a miss, on the mismatch fallback and on a revalidation.
C20_PolicyFromRequestSent ==
    F.policy_req.kind = "Some"
    => /\ F.sent # <<>>
       /\ F.policy_req.val = F.sent[Len(F.sent)]

\* C21: when a fetch read a well-formed envelope, revalidated it, and the
\* response is Modified with a policy that is not storable, the file of the
\* cache entry is left as it was read: the fetch neither writes nor removes
\* it, at any step up to its return, so the entry still holds the superseded
\* data with its old policy.
C21_NonStorableModifiedKeepsFile ==
    (/\ F.verdict = "Stale"
     /\ F.outcome = "ModifiedOrNew"
     /\ ~is_storable(F.new_policy.val))
    => /\ HasEnvelope
       /\ F.cache_policy = None
       /\ F.written = <<>>
       /\ F.removed = <<>>
       /\ file = F.read
       /\ file = FileOf(EncodeEnvelope(F.cached.val))
       /\ WellFormed(file)
       /\ F.result.kind = "Ok" => F.result = Ok(into_target(F.data.val))

\* C21 witness: a revalidation was answered 200 with no-store, the fetch
\* returned the callback's value, and the entry still holds the envelope read.
C21_Witness ==
    /\ Done
    /\ F.verdict = "Stale"
    /\ F.outcome = "ModifiedOrNew"
    /\ F.res.status = "ok"
    /\ F.res.cc.noStore
    /\ F.result = Ok("t2")
    /\ F.cached.val.data = [fmt |-> "payload", inner |-> "t1"]
    /\ file = FileOf(EncodeEnvelope(F.cached.val))
====
